---- MODULE Spec2Model ----
(***************************************************************************)
(* Fractal.cpp: the interactive Mandelbrot viewer.                         *)
(*                                                                         *)
(* The view state (zoom, offsetX, offsetY) and the drag state are C++      *)
(* doubles changed by three GLFW callbacks; once per frame the render loop *)
(* converts them to single precision uniforms and the fragment shader maps *)
(* every fragment to a point c and runs the escape-time loop in single     *)
(* precision.                                                              *)
(*                                                                         *)
(* Floating point is modelled as IEEE 754 binary arithmetic (round to      *)
(* nearest, ties to even, gradual underflow, infinities, NaN) with the     *)
(* widths scaled down: `double' is the format Dbl, `float' the narrower    *)
(* format Flt.  A value is an integer count of the smallest positive       *)
(* double (the unit): finite values are exact, Inf / -Inf / NaN are        *)
(* sentinels above every finite value.  Zero carries no sign: no divisor   *)
(* in the program can be a negative zero.                                  *)
(***************************************************************************)
EXTENDS Integers, Sequences, FiniteSets, TLC

----------------------------------------------------------------------------
(* The two floating-point formats *)

\* significand bits of the model's double (binary64 has 53)
PrecD == 12
\* the smallest normal double is 2^(-EminMagD) (binary64: 2^(-1022))
EminMagD == 4
\* the largest double is below 2^(EmaxD+1) (binary64: 2^1024)
EmaxD == 11

\* the model's float: one bit less precision, a narrower exponent range on
\* both sides (binary32 against binary64: 24 bits, 2^(-126) .. 2^128)
PrecF == PrecD - 1
EminMagF == EminMagD - 3
EmaxF == EmaxD - 1

\* log2 of the number of units in 1.0
QD == EminMagD + PrecD - 1
One == 2^QD
Inf == 2^(EmaxD + 1 + QD)
NaN == Inf + 1

\* a format: p significand bits, quantum 2^qs units, overflow at 2^top units
Dbl == [p |-> PrecD, qs |-> 0, top |-> EmaxD + 1 + QD]
Flt == [p |-> PrecF, qs |-> QD - EminMagF - PrecF + 1, top |-> EmaxF + 1 + QD]

Abs(x) == IF x < 0 THEN -x ELSE x
Sgn(x) == IF x < 0 THEN -1 ELSE IF x > 0 THEN 1 ELSE 0
Max(a, b) == IF a >= b THEN a ELSE b

IsNaN(x) == x = NaN
IsInf(x) == x = Inf \/ x = -Inf
IsFinite(x) == ~IsNaN(x) /\ ~IsInf(x)

\* the number of bits of n, 0 <= n < 2^31
Bits4(m) == IF m < 2 THEN m ELSE IF m < 4 THEN 2 ELSE IF m < 8 THEN 3 ELSE 4
BitLen(n) ==
    IF n < 2^4 THEN Bits4(n)
    ELSE IF n < 2^8 THEN 4 + Bits4(n \div 2^4)
    ELSE IF n < 2^12 THEN 8 + Bits4(n \div 2^8)
    ELSE IF n < 2^16 THEN 12 + Bits4(n \div 2^12)
    ELSE IF n < 2^20 THEN 16 + Bits4(n \div 2^16)
    ELSE IF n < 2^24 THEN 20 + Bits4(n \div 2^20)
    ELSE IF n < 2^28 THEN 24 + Bits4(n \div 2^24)
    ELSE 28 + Bits4(n \div 2^28)

\* trailing zero bits of n > 0
RECURSIVE Tz(_)
Tz(n) ==
    IF n % 2 = 1 THEN 0
    ELSE IF n % 256 = 0 THEN 8 + Tz(n \div 256)
    ELSE IF n % 16 = 0 THEN 4 + Tz(n \div 16)
    ELSE 1 + Tz(n \div 2)

\* M * 2^E units (M >= 0) rounded to format f: nearest, ties to even,
\* subnormals below the smallest normal, Inf from 2^top on
RoundMag(M, E, f) ==
    IF M = 0 THEN 0
    ELSE LET lead == BitLen(M) - 1 + E
             ue == Max(lead - (f.p - 1), f.qs)
             s == ue - E
         IN  IF lead >= f.top THEN Inf
             ELSE IF s <= 0 THEN M * 2^E
             ELSE IF s > 30 THEN 0
             ELSE LET q == M \div 2^s
                      r == M % 2^s
                      h == 2^(s - 1)
                      up == IF r > h \/ (r = h /\ q % 2 = 1) THEN 1 ELSE 0
                      n == (q + up) * 2^ue
                  IN  IF n >= 2^f.top THEN Inf ELSE n

\* a rounded magnitude with its sign
Signed(sg, m) == IF sg < 0 THEN -m ELSE m

FNeg(a) == IF IsNaN(a) THEN NaN ELSE -a

FAdd(f, a, b) ==
    IF IsNaN(a) \/ IsNaN(b) THEN NaN
    ELSE IF IsInf(a) THEN (IF IsInf(b) /\ a # b THEN NaN ELSE a)
    ELSE IF IsInf(b) THEN b
    ELSE LET s == a + b IN Signed(Sgn(s), RoundMag(Abs(s), 0, f))

FSub(f, a, b) == FAdd(f, a, FNeg(b))

FMul(f, a, b) ==
    IF IsNaN(a) \/ IsNaN(b) THEN NaN
    ELSE IF IsInf(a) \/ IsInf(b)
         THEN (IF a = 0 \/ b = 0 THEN NaN ELSE Signed(Sgn(a) * Sgn(b), Inf))
    ELSE IF a = 0 \/ b = 0 THEN 0
    ELSE LET ea == Tz(Abs(a))
             eb == Tz(Abs(b))
             ma == Abs(a) \div 2^ea
             mb == Abs(b) \div 2^eb
         IN  Signed(Sgn(a) * Sgn(b), RoundMag(ma * mb, ea + eb - QD, f))

FDiv(f, a, b) ==
    IF IsNaN(a) \/ IsNaN(b) THEN NaN
    ELSE IF IsInf(a)
         THEN (IF IsInf(b) THEN NaN
               ELSE Signed(Sgn(a) * (IF b < 0 THEN -1 ELSE 1), Inf))
    ELSE IF IsInf(b) THEN 0
    ELSE IF b = 0 THEN (IF a = 0 THEN NaN ELSE Signed(Sgn(a), Inf))
    ELSE IF a = 0 THEN 0
    ELSE LET ea == Tz(Abs(a))
             eb == Tz(Abs(b))
             ma == Abs(a) \div 2^ea
             mb == Abs(b) \div 2^eb
             k == 2 * PrecD + 3 - BitLen(ma)
             N == ma * 2^k
             qt == N \div mb
             st == IF N % mb = 0 THEN 0 ELSE 1
         IN  Signed(Sgn(a) * Sgn(b),
                    RoundMag(2 * qt + st, ea - eb - k - 1 + QD, f))

\* IEEE comparisons: every comparison with a NaN is false
FLt(a, b) == ~IsNaN(a) /\ ~IsNaN(b) /\ a < b
FGt(a, b) == FLt(b, a)
FLe(a, b) == ~IsNaN(a) /\ ~IsNaN(b) /\ a <= b

\* conversions
ToFloat(x) ==
    IF IsNaN(x) \/ IsInf(x) THEN x ELSE Signed(Sgn(x), RoundMag(Abs(x), 0, Flt))
IntToDouble(n) == Signed(Sgn(n), RoundMag(Abs(n), QD, Dbl))
IntToFloat(n) == Signed(Sgn(n), RoundMag(Abs(n), QD, Flt))

\* a literal num/den of the source, as the compiler rounds it
DoubleLit(num, den) == FDiv(Dbl, IntToDouble(num), IntToDouble(den))
FloatLit(num, den) == FDiv(Flt, IntToFloat(num), IntToFloat(den))

----------------------------------------------------------------------------
(* Program constants and globals (Fractal.cpp lines 5-17) *)

WIDTH == 800
HEIGHT == 800
MaxIterations0 == 1500

GLFW_MOUSE_BUTTON_LEFT == 0
GLFW_MOUSE_BUTTON_RIGHT == 1
GLFW_RELEASE == 0
GLFW_PRESS == 1

\* the initialisers of zoom, offsetX and offsetY
Zoom0 == IntToDouble(200)
OffsetX0 == DoubleLit(-1, 2)
OffsetY0 == IntToDouble(0)
\* the literal 1.1 of scrollCallback, as a double
ZoomFactor == DoubleLit(11, 10)

VARIABLES
    zoom, offsetX, offsetY, maxIterations,   \* the Mandelbrot parameters
    isDragging, lastMouseX, lastMouseY,      \* mouse state for panning
    cursorX, cursorY,       \* the window's cursor position, as glfwGetCursorPos reads it
    pc,                     \* where main's rendering loop stands
    u_resolution, u_offset, u_zoom, u_maxIterations,  \* the program's uniforms
    drawn,                  \* the uniform values the last draw call's fragments read
    gl_FragCoord, c, z, iteration, fragColor,   \* one fragment shader invocation
    event,                  \* the input event glfwPollEvents dispatched last
    view0,                  \* history: the view state when the frame's uniforms were set
    drag,                   \* history: the drag in progress since its button press
    nEvents, polled         \* events dispatched in all, and in this glfwPollEvents

view == <<zoom, offsetX, offsetY, maxIterations>>
mouse == <<isDragging, lastMouseX, lastMouseY>>
uniforms == <<u_resolution, u_offset, u_zoom, u_maxIterations>>
shader == <<gl_FragCoord, c, z, iteration, fragColor>>
vars == <<zoom, offsetX, offsetY, maxIterations, isDragging, lastMouseX, lastMouseY,
          cursorX, cursorY, pc, u_resolution, u_offset, u_zoom, u_maxIterations,
          drawn, gl_FragCoord, c, z, iteration, fragColor, event, view0, drag,
          nEvents, polled>>

NoEvent == [kind |-> "none", a |-> 0, b |-> 0]
NoDrag == [active |-> FALSE, x |-> 0, y |-> 0, ox |-> 0, oy |-> 0, n |-> 0,
           fixed |-> TRUE, m |-> 0]

\* where the cursor can be: three points of the 800x800 window
CursorPositions ==
    { <<IntToDouble(400), IntToDouble(400)>>,
      <<IntToDouble(380), IntToDouble(420)>>,
      <<IntToDouble(386), IntToDouble(393)>> }

Init ==
    /\ zoom = Zoom0
    /\ offsetX = OffsetX0
    /\ offsetY = OffsetY0
    /\ maxIterations = MaxIterations0
    /\ isDragging = FALSE
    /\ lastMouseX = 0
    /\ lastMouseY = 0
    /\ cursorX = IntToDouble(WIDTH \div 2)
    /\ cursorY = IntToDouble(HEIGHT \div 2)
    /\ pc = "frame"
    /\ u_resolution = <<0, 0>>
    /\ u_offset = <<0, 0>>
    /\ u_zoom = 0
    /\ u_maxIterations = 0
    /\ drawn = <<<<0, 0>>, <<0, 0>>, 0, 0>>
    /\ gl_FragCoord = <<0, 0>>
    /\ c = <<0, 0>>
    /\ z = <<0, 0>>
    /\ iteration = 0
    /\ fragColor = <<0, 0, 0, 0>>
    /\ event = NoEvent
    /\ view0 = <<Zoom0, OffsetX0, OffsetY0, MaxIterations0>>
    /\ drag = NoDrag
    /\ nEvents = 0
    /\ polled = 0

----------------------------------------------------------------------------
(* The GLFW callbacks (Fractal.cpp lines 19-50) *)

\* mutant: a zoom with a ceiling
ZoomInClamped(zm) ==
    IF FGt(FMul(Dbl, zm, ZoomFactor), IntToDouble(1000)) THEN zm
    ELSE FMul(Dbl, zm, ZoomFactor)
\* zoom *= 1.1
ZoomIn(zm) == FMul(Dbl, zm, ZoomFactor)
\* mutant: zoom -= 1.1
ZoomOutBySubtraction(zm) == FSub(Dbl, zm, ZoomFactor)
\* zoom /= 1.1
ZoomOut(zm) == FDiv(Dbl, zm, ZoomFactor)

scrollCallback(xoffset, yoffset) ==
    /\ zoom' = IF yoffset > 0 THEN ZoomIn(zoom)
               ELSE IF yoffset < 0 THEN ZoomOut(zoom)
               ELSE zoom
    /\ UNCHANGED <<offsetX, offsetY, maxIterations, mouse>>

\* mutant: any button drags
mouseButtonCallbackAnyButton(button, action) ==
    /\ IF action = GLFW_PRESS
       THEN /\ isDragging' = TRUE
            /\ lastMouseX' = cursorX
            /\ lastMouseY' = cursorY
       ELSE /\ isDragging' = FALSE
            /\ UNCHANGED <<lastMouseX, lastMouseY>>
    /\ UNCHANGED view

mouseButtonCallback(button, action) ==
    /\ IF button = GLFW_MOUSE_BUTTON_LEFT
       THEN IF action = GLFW_PRESS
            THEN /\ isDragging' = TRUE
                 /\ lastMouseX' = cursorX
                 /\ lastMouseY' = cursorY
            ELSE IF action = GLFW_RELEASE
            THEN /\ isDragging' = FALSE
                 /\ UNCHANGED <<lastMouseX, lastMouseY>>
            ELSE UNCHANGED mouse
       ELSE UNCHANGED mouse
    /\ UNCHANGED view

\* offsetX -= dx / zoom
PanX(ox, dx, zm) == FSub(Dbl, ox, FDiv(Dbl, dx, zm))
\* mutant: offsetY -= dy / zoom
PanYLikeX(oy, dy, zm) == FSub(Dbl, oy, FDiv(Dbl, dy, zm))
\* offsetY += dy / zoom
PanY(oy, dy, zm) == FAdd(Dbl, oy, FDiv(Dbl, dy, zm))

\* mutant: the last cursor position is not advanced during a drag
cursorPositionCallbackStaleLast(xpos, ypos) ==
    /\ IF isDragging
       THEN /\ offsetX' = PanX(offsetX, FSub(Dbl, xpos, lastMouseX), zoom)
            /\ offsetY' = PanY(offsetY, FSub(Dbl, ypos, lastMouseY), zoom)
       ELSE UNCHANGED <<offsetX, offsetY>>
    /\ UNCHANGED <<zoom, maxIterations, isDragging, lastMouseX, lastMouseY>>

\* mutant: the last cursor position is tracked outside a drag too
cursorPositionCallbackUnguarded(xpos, ypos) ==
    /\ lastMouseX' = xpos
    /\ lastMouseY' = ypos
    /\ IF isDragging
       THEN /\ offsetX' = PanX(offsetX, FSub(Dbl, xpos, lastMouseX), zoom)
            /\ offsetY' = PanY(offsetY, FSub(Dbl, ypos, lastMouseY), zoom)
       ELSE UNCHANGED <<offsetX, offsetY>>
    /\ UNCHANGED <<zoom, maxIterations, isDragging>>

cursorPositionCallback(xpos, ypos) ==
    /\ IF isDragging
       THEN LET dx == FSub(Dbl, xpos, lastMouseX)
                dy == FSub(Dbl, ypos, lastMouseY)
            IN  /\ lastMouseX' = xpos
                /\ lastMouseY' = ypos
                /\ offsetX' = PanX(offsetX, dx, zoom)
                /\ offsetY' = PanY(offsetY, dy, zoom)
       ELSE UNCHANGED <<lastMouseX, lastMouseY, offsetX, offsetY>>
    /\ UNCHANGED <<zoom, maxIterations, isDragging>>

----------------------------------------------------------------------------
(* The rendering loop of main (lines 181-195) *)

\* mutant: callbacks delivered at any point of the loop
EventsDispatchedAnytime == pc # "exit"

\* GLFW calls the callbacks from inside glfwPollEvents only (line 194)
EventsDispatched == pc = "poll"

\* history of the drag, kept beside the callbacks: where and with which offset
\* it began, the cursor moves since (n), whether zoom stayed as it was (fixed),
\* and the largest magnitude among the offsets and quotients it computed (m)
DragAfter(e) ==
    IF e.kind = "button" /\ e.a = GLFW_MOUSE_BUTTON_LEFT
    THEN IF e.b = GLFW_PRESS
         THEN [active |-> TRUE, x |-> cursorX, y |-> cursorY,
               ox |-> offsetX, oy |-> offsetY, n |-> 0, fixed |-> TRUE,
               m |-> Max(Abs(offsetX), Abs(offsetY))]
         ELSE NoDrag
    ELSE IF e.kind = "cursor" /\ drag.active
    THEN [drag EXCEPT
            !.n = @ + 1,
            !.m = Max(Max(@, Max(Abs(offsetX'), Abs(offsetY'))),
                      Max(Abs(FDiv(Dbl, FSub(Dbl, e.a, lastMouseX), zoom)),
                          Abs(FDiv(Dbl, FSub(Dbl, e.b, lastMouseY), zoom))))]
    ELSE IF e.kind = "scroll" /\ drag.active
    THEN [drag EXCEPT !.fixed = @ /\ zoom' = zoom]
    ELSE drag

OnScroll(yoffset) ==
    /\ EventsDispatched
    /\ event' = [kind |-> "scroll", a |-> 0, b |-> yoffset]
    /\ scrollCallback(0, yoffset)
    /\ drag' = DragAfter(event')
    /\ UNCHANGED <<cursorX, cursorY, pc, uniforms, drawn, shader, view0>>

OnMouseButton(button, action) ==
    /\ EventsDispatched
    /\ event' = [kind |-> "button", a |-> button, b |-> action]
    /\ mouseButtonCallback(button, action)
    /\ drag' = DragAfter(event')
    /\ UNCHANGED <<cursorX, cursorY, pc, uniforms, drawn, shader, view0>>

OnCursorPos(xpos, ypos) ==
    /\ EventsDispatched
    /\ event' = [kind |-> "cursor", a |-> xpos, b |-> ypos]
    /\ cursorX' = xpos
    /\ cursorY' = ypos
    /\ cursorPositionCallback(xpos, ypos)
    /\ drag' = DragAfter(event')
    /\ UNCHANGED <<pc, uniforms, drawn, shader, view0>>

\* lines 181-188: the loop test, glClear, glUseProgram and the four glUniform calls
SetUniforms ==
    /\ pc = "frame"
    /\ u_resolution' = <<IntToFloat(WIDTH), IntToFloat(HEIGHT)>>
    /\ u_offset' = <<ToFloat(offsetX), ToFloat(offsetY)>>
    /\ u_zoom' = ToFloat(zoom)
    /\ u_maxIterations' = maxIterations
    /\ view0' = view
    /\ pc' = "draw"
    /\ UNCHANGED <<view, mouse, cursorX, cursorY, drawn, shader, event, drag>>

\* lines 190-191: the draw call; its fragments read the uniforms as they are now
DrawArrays ==
    /\ pc = "draw"
    /\ drawn' = uniforms
    /\ pc' = "swap"
    /\ UNCHANGED <<view, mouse, cursorX, cursorY, uniforms, shader, event, view0, drag>>

\* line 193
SwapBuffers ==
    /\ pc = "swap"
    /\ pc' = "poll"
    /\ UNCHANGED <<view, mouse, cursorX, cursorY, uniforms, drawn, shader, event,
                   view0, drag>>

\* line 194: glfwPollEvents returns, the loop goes round
PollReturn ==
    /\ pc = "poll"
    /\ pc' = "frame"
    /\ event' = NoEvent
    /\ UNCHANGED <<view, mouse, cursorX, cursorY, uniforms, drawn, shader, view0, drag>>

\* line 181: glfwWindowShouldClose, then the cleanup of lines 197-204
WindowClose ==
    /\ pc = "frame"
    /\ pc' = "exit"
    /\ UNCHANGED <<view, mouse, cursorX, cursorY, uniforms, drawn, shader, event,
                   view0, drag>>

----------------------------------------------------------------------------
(* The fragment shader (lines 62-87), one invocation *)

Half == FloatLit(1, 2)
Two == IntToFloat(2)
Four == IntToFloat(4)

\* the window coordinates of the centre of pixel (i, j), j counted from the bottom
PixelCentre(i, j) == <<FAdd(Flt, IntToFloat(i), Half), FAdd(Flt, IntToFloat(j), Half)>>

\* mutant: the fragment is not moved to the image centre
MapAxisNotCentred(fc, res, zm, off) == FAdd(Flt, FDiv(Flt, fc, zm), off)
\* mutant: multiplied by the zoom
MapAxisTimesZoom(fc, res, zm, off) ==
    FAdd(Flt, FMul(Flt, FSub(Flt, fc, FMul(Flt, res, Half)), zm), off)

\* line 74, one component: (gl_FragCoord - u_resolution * 0.5) / u_zoom + u_offset
MapAxis(fc, res, zm, off) ==
    FAdd(Flt, FDiv(Flt, FSub(Flt, fc, FMul(Flt, res, Half)), zm), off)

FragToComplex(fc) ==
    <<MapAxis(fc[1], u_resolution[1], u_zoom, u_offset[1]),
      MapAxis(fc[2], u_resolution[2], u_zoom, u_offset[2])>>

Dot(v) == FAdd(Flt, FMul(Flt, v[1], v[1]), FMul(Flt, v[2], v[2]))

\* mutant: one pass too many
LoopCondOffByOne == FLt(Dot(z), Four) /\ iteration <= u_maxIterations

\* line 78
LoopCond == FLt(Dot(z), Four) /\ iteration < u_maxIterations

\* line 79
Step(v, k) ==
    <<FAdd(Flt, FSub(Flt, FMul(Flt, v[1], v[1]), FMul(Flt, v[2], v[2])), k[1]),
      FAdd(Flt, FMul(Flt, FMul(Flt, Two, v[1]), v[2]), k[2])>>

\* lines 84-85
Colour(it, maxIt) ==
    LET t == FDiv(Flt, IntToFloat(it), IntToFloat(maxIt))
    IN  <<t, FMul(Flt, t, t), FMul(Flt, t, Half), IntToFloat(1)>>

\* lines 72-77 for the fragment of pixel (i, j)
FragMain(i, j) ==
    /\ pc = "draw"
    /\ drawn' = uniforms
    /\ gl_FragCoord' = PixelCentre(i, j)
    /\ c' = FragToComplex(PixelCentre(i, j))
    /\ z' = <<0, 0>>
    /\ iteration' = 0
    /\ pc' = "while"
    /\ UNCHANGED <<view, mouse, cursorX, cursorY, uniforms, fragColor, event, view0, drag>>

\* lines 78-81, one pass
FragWhile ==
    /\ pc = "while"
    /\ LoopCond
    /\ z' = Step(z, c)
    /\ iteration' = iteration + 1
    /\ UNCHANGED <<view, mouse, cursorX, cursorY, pc, uniforms, drawn, gl_FragCoord, c,
                   fragColor, event, view0, drag>>

\* lines 83-86: the loop is left, the colour written; the draw call is over
FragOutput ==
    /\ pc = "while"
    /\ ~LoopCond
    /\ fragColor' = Colour(iteration, u_maxIterations)
    /\ pc' = "swap"
    /\ UNCHANGED <<view, mouse, cursorX, cursorY, uniforms, drawn, gl_FragCoord, c, z,
                   iteration, event, view0, drag>>

----------------------------------------------------------------------------
(* Specifications *)

\* input events in one run of Spec
MaxEvents == 5
\* input events in one run of SpecEval
MaxEvalEvents == 2
\* input events one glfwPollEvents dispatches in SpecZoom
MaxPollEvents == 2

ScrollOffsets == {-1, 0, 1}
Buttons == {GLFW_MOUSE_BUTTON_LEFT, GLFW_MOUSE_BUTTON_RIGHT}
ButtonActions == {GLFW_PRESS, GLFW_RELEASE}

\* the fragments looked at: the corners, the centre, one point that escapes late
Pixels == { <<0, HEIGHT - 1>>, <<0, 0>>, <<WIDTH \div 2, HEIGHT \div 2>>,
            <<560, 400>> }

Input ==
    \/ \E y \in ScrollOffsets : OnScroll(y)
    \/ \E b \in Buttons, a \in ButtonActions : OnMouseButton(b, a)
    \/ \E p \in CursorPositions : OnCursorPos(p[1], p[2])

\* the control thread: the callbacks and the rendering loop
Next ==
    \/ /\ nEvents < MaxEvents
       /\ Input
       /\ nEvents' = nEvents + 1
       /\ UNCHANGED polled
    \/ /\ SetUniforms \/ DrawArrays \/ SwapBuffers \/ PollReturn \/ WindowClose
       /\ UNCHANGED <<nEvents, polled>>

Spec == Init /\ [][Next]_vars

\* the events that change what is drawn: a scroll step, a drag with the left button
InputEval ==
    \/ \E y \in ScrollOffsets \ {0} : OnScroll(y)
    \/ OnMouseButton(GLFW_MOUSE_BUTTON_LEFT, GLFW_PRESS)
    \/ \E p \in CursorPositions : OnCursorPos(p[1], p[2])

\* the same with the draw call followed through one fragment
NextEval ==
    \/ /\ nEvents < MaxEvalEvents
       /\ InputEval
       /\ nEvents' = nEvents + 1
       /\ UNCHANGED polled
    \/ /\ \/ SetUniforms
          \/ \E px \in Pixels : FragMain(px[1], px[2])
          \/ FragWhile
          \/ FragOutput
          \/ SwapBuffers
          \/ PollReturn
       /\ UNCHANGED <<nEvents, polled>>

SpecEval == Init /\ [][NextEval]_vars

\* scrolling without end: any number of frames, a few events in each
NextZoom ==
    \/ /\ polled < MaxPollEvents
       /\ \E y \in ScrollOffsets : OnScroll(y)
       /\ polled' = polled + 1
       /\ UNCHANGED nEvents
    \/ /\ SetUniforms \/ DrawArrays \/ PollReturn
       /\ UNCHANGED <<nEvents, polled>>
    \/ /\ SwapBuffers
       /\ polled' = 0
       /\ UNCHANGED nEvents

SpecZoom == Init /\ [][NextZoom]_vars

----------------------------------------------------------------------------
(* Properties *)

\* the step dispatches this kind of event
Scrolled == event'.kind = "scroll"
Clicked == event'.kind = "button"
Moved == event'.kind = "cursor"

(* C1: in every state reachable by scrolling, however far in or out, zoom is
   strictly positive (never zero, negative or NaN). *)
ZoomPositive == FGt(zoom, 0)

\* zoom scrolled out into the subnormal doubles, where dividing no longer changes it
ZoomUnderflowed ==
    /\ event.kind = "scroll"
    /\ event.b < 0
    /\ zoom < 2^(PrecD - 1)
    /\ ZoomOut(zoom) = zoom

(* C2: from the moment a frame's uniforms are set until the frame is presented
   no callback runs: the view state is still the one the frame began with, the
   uniforms are its single-precision values, and the draw call read exactly them. *)
FrameSnapshotConsistent ==
    pc \in {"draw", "swap"} =>
        /\ view = view0
        /\ u_offset = <<ToFloat(view0[2]), ToFloat(view0[3])>>
        /\ u_zoom = ToFloat(view0[1])
        /\ u_maxIterations = view0[4]
        /\ pc = "swap" => drawn = uniforms

\* a frame being presented after input has changed both zoom and offset
FrameAfterInput ==
    /\ pc = "swap"
    /\ zoom # Zoom0
    /\ offsetX # OffsetX0
    /\ drawn = uniforms

(* C3: a cursor move during a drag sets offsetX to offsetX - dx / zoom, offsetY to
   offsetY + dy / zoom (double arithmetic, dx and dy taken from the last cursor
   position) and remembers the cursor; with dx > 0 offsetX does not increase, with
   dy > 0 offsetY does not decrease; zoom is left alone. *)
DragMovesOffset ==
    [][ (Moved /\ isDragging) =>
          LET dx == FSub(Dbl, event'.a, lastMouseX)
              dy == FSub(Dbl, event'.b, lastMouseY)
          IN  /\ offsetX' = FSub(Dbl, offsetX, FDiv(Dbl, dx, zoom))
              /\ offsetY' = FAdd(Dbl, offsetY, FDiv(Dbl, dy, zoom))
              /\ lastMouseX' = event'.a
              /\ lastMouseY' = event'.b
              /\ FGt(dx, 0) => ~FGt(offsetX', offsetX)
              /\ FGt(dy, 0) => ~FLt(offsetY', offsetY)
              /\ zoom' = zoom ]_vars

\* a drag to the right and downwards has happened
DraggedRightAndDown ==
    /\ event.kind = "cursor"
    /\ isDragging
    /\ drag.n >= 1
    /\ FLt(offsetX, OffsetX0)
    /\ FGt(offsetY, OffsetY0)

(* C4: a button release while no drag is active, and a cursor move while no drag
   is active, change neither zoom, offset, maxIterations nor the drag state. *)
InactiveInputChangesNothing ==
    [][ ( ~isDragging /\ ( (Clicked /\ event'.b = GLFW_RELEASE) \/ Moved ) ) =>
          UNCHANGED <<zoom, offsetX, offsetY, maxIterations,
                      isDragging, lastMouseX, lastMouseY>> ]_vars

\* the cursor has moved with no drag active: the remembered position is not the cursor's
MovedWhileInactive ==
    /\ event.kind = "cursor"
    /\ ~isDragging
    /\ cursorX # lastMouseX

(* C5: a scroll forward sets zoom to zoom * 1.1 and a scroll backward to
   zoom / 1.1 (double arithmetic), wherever zoom stands: nothing clamps it. *)
ScrollScalesZoom ==
    [][ /\ (Scrolled /\ event'.b > 0) => zoom' = FMul(Dbl, zoom, ZoomFactor)
        /\ (Scrolled /\ event'.b < 0) => zoom' = FDiv(Dbl, zoom, ZoomFactor) ]_vars

\* scrolled in beyond the largest double
ZoomOverflowed ==
    /\ event.kind = "scroll"
    /\ event.b > 0
    /\ zoom = Inf

(* C6, as claimed: the pixel at the image centre, pixel (WIDTH/2, HEIGHT/2), is
   mapped to c = offset exactly. *)
CentrePixelMapsToOffset ==
    (pc = "while" /\ iteration = 0 /\ gl_FragCoord = PixelCentre(WIDTH \div 2, HEIGHT \div 2))
        => c = <<offsetX, offsetY>>

\* the point (WIDTH/2, HEIGHT/2) itself, which is u_resolution * 0.5
ImageCentre == <<FMul(Flt, u_resolution[1], Half), FMul(Flt, u_resolution[2], Half)>>

(* C6, amended: the image centre is the corner shared by the four central pixels,
   not a pixel centre.  Pixel (WIDTH/2, HEIGHT/2) has gl_FragCoord
   (WIDTH/2 + 0.5, HEIGHT/2 + 0.5) and is mapped to 0.5 / u_zoom + u_offset on each
   axis, in single precision, u_offset being offset rounded to single precision;
   the point u_resolution * 0.5 itself maps to u_offset unless u_zoom is zero. *)
CentrePixelMapsNearOffset ==
    (pc = "while" /\ iteration = 0 /\ gl_FragCoord = PixelCentre(WIDTH \div 2, HEIGHT \div 2))
        => /\ gl_FragCoord = <<FAdd(Flt, ImageCentre[1], Half), FAdd(Flt, ImageCentre[2], Half)>>
           /\ u_offset = <<ToFloat(offsetX), ToFloat(offsetY)>>
           /\ c = <<FAdd(Flt, FDiv(Flt, Half, u_zoom), u_offset[1]),
                    FAdd(Flt, FDiv(Flt, Half, u_zoom), u_offset[2])>>
           /\ u_zoom # 0 => FragToComplex(ImageCentre) = u_offset

\* the central pixel evaluated after a pan left an offset that no float holds
CentrePixelAfterPan ==
    /\ pc = "while"
    /\ iteration = 0
    /\ gl_FragCoord = PixelCentre(WIDTH \div 2, HEIGHT \div 2)
    /\ ToFloat(offsetX) # offsetX
    /\ c # <<offsetX, offsetY>>

\* |a - num/den| <= 1/100, counted in units (a finite)
Near(a, num, den) == Abs(den * a - num * One) <= (den * One) \div 100

(* C7: with the initial view (800x800, zoom 200, offset (-0.5, 0), 1500
   iterations) the top-left pixel, the first pixel of the top row, is mapped to
   c within 0.01 of (-2.5, 2.0) and its loop is left with iteration <= 5. *)
TopLeftEscapesAtOnce ==
    ( /\ pc = "swap"
      /\ gl_FragCoord = PixelCentre(0, HEIGHT - 1)
      /\ view = <<Zoom0, OffsetX0, OffsetY0, MaxIterations0>> )
        => /\ IsFinite(c[1]) /\ IsFinite(c[2])
           /\ Near(c[1], -5, 2)
           /\ Near(c[2], 2, 1)
           /\ iteration <= 5

\* the top-left pixel of the first frame, done
TopLeftEvaluated ==
    /\ pc = "swap"
    /\ gl_FragCoord = PixelCentre(0, HEIGHT - 1)
    /\ view = <<Zoom0, OffsetX0, OffsetY0, MaxIterations0>>
    /\ iteration >= 1
    /\ fragColor[4] = One

(* C8: the loop makes at most u_maxIterations passes and iteration stays an
   integer in 0 .. u_maxIterations; it is left early only by escaping
   (|z|^2 >= 4); a fragment that used all its passes gets t = 1 and the colour
   (1, 1, 0.5, 1); every colour has alpha 1. *)
LoopBounded ==
    /\ iteration \in 0 .. u_maxIterations
    /\ pc = "swap" =>
          /\ iteration < u_maxIterations => ~FLt(Dot(z), Four)
          /\ FLt(Dot(z), Four) => iteration = u_maxIterations
          /\ iteration = u_maxIterations => fragColor = <<One, One, One \div 2, One>>
          /\ fragColor[4] = One

\* a fragment that never escaped, at the end of its loop
NeverEscaped ==
    /\ pc = "swap"
    /\ u_maxIterations = MaxIterations0
    /\ iteration = u_maxIterations
    /\ FLt(Dot(z), Four)

(* C9, as claimed: every button press starts a drag at the cursor and every button
   release ends it, and no button event changes the view. *)
AnyButtonDrags ==
    [][ Clicked =>
          /\ event'.b = GLFW_PRESS =>
                isDragging' /\ lastMouseX' = cursorX /\ lastMouseY' = cursorY
          /\ event'.b = GLFW_RELEASE => ~isDragging'
          /\ UNCHANGED view ]_vars

(* C9, amended: no drag is active at startup; a press of the left button starts a
   drag and remembers the cursor position, a release of the left button ends the
   drag, an event of any other button changes nothing; no button event changes
   zoom, offset or maxIterations. *)
LeftButtonDrags ==
    /\ ~isDragging
    /\ [][ Clicked =>
              /\ (event'.a = GLFW_MOUSE_BUTTON_LEFT /\ event'.b = GLFW_PRESS) =>
                    isDragging' /\ lastMouseX' = cursorX /\ lastMouseY' = cursorY
              /\ (event'.a = GLFW_MOUSE_BUTTON_LEFT /\ event'.b = GLFW_RELEASE) =>
                    ~isDragging' /\ UNCHANGED <<lastMouseX, lastMouseY>>
              /\ event'.a # GLFW_MOUSE_BUTTON_LEFT => UNCHANGED mouse
              /\ UNCHANGED view ]_vars

\* a left press away from where the cursor started has begun a drag
DragStarted ==
    /\ event = [kind |-> "button", a |-> GLFW_MOUSE_BUTTON_LEFT, b |-> GLFW_PRESS]
    /\ isDragging
    /\ lastMouseX = cursorX
    /\ cursorX # IntToDouble(WIDTH \div 2)

\* the offsets one cursor move from the press position to the cursor would give
OneMoveX == FSub(Dbl, drag.ox, FDiv(Dbl, FSub(Dbl, cursorX, drag.x), zoom))
OneMoveY == FAdd(Dbl, drag.oy, FDiv(Dbl, FSub(Dbl, cursorY, drag.y), zoom))

(* C10, as claimed: during a drag at fixed zoom the offset depends only on where
   the button was pressed and where the cursor is now, not on the moves between. *)
DragPathIndependent ==
    (drag.active /\ drag.fixed /\ drag.n >= 1) =>
        offsetX = OneMoveX /\ offsetY = OneMoveY

\* the spacing of the doubles at magnitude m, in units
Ulp(m) == IF BitLen(m) <= PrecD THEN 1 ELSE 2^(BitLen(m) - PrecD)

\* the largest magnitude among what the drag computed and what one move would
DragMagnitude ==
    Max(Max(drag.m, Max(Abs(OneMoveX), Abs(OneMoveY))),
        Max(Abs(FDiv(Dbl, FSub(Dbl, cursorX, drag.x), zoom)),
            Abs(FDiv(Dbl, FSub(Dbl, cursorY, drag.y), zoom))))

(* C10, amended: during a drag at fixed zoom the offset is path-independent up to
   rounding only: after n cursor moves each offset coordinate is within n + 1
   units in the last place (at the largest magnitude computed) of the value one
   move from the press position to the cursor would give, as long as all values
   are finite. *)
DragPathIndependentUpToRounding ==
    (drag.active /\ drag.fixed /\ drag.n >= 1 /\ DragMagnitude < Inf) =>
        /\ lastMouseX = cursorX /\ lastMouseY = cursorY
        /\ Abs(offsetX - OneMoveX) <= (drag.n + 1) * Ulp(DragMagnitude)
        /\ Abs(offsetY - OneMoveY) <= (drag.n + 1) * Ulp(DragMagnitude)

\* a drag of several moves whose offset is not the one a single move gives
DragDrifted ==
    /\ drag.active
    /\ drag.fixed
    /\ drag.n >= 2
    /\ offsetX # OneMoveX

====
